---- MODULE Spec2Model ----
(***************************************************************************)
(* A model of parsing.py: result processors, primitive parsers and         *)
(* combinators.  A parser is a closure; the model writes a closure as a    *)
(* tuple <<name of the inner function, captured arguments...>> and         *)
(* Apply(p, string) evaluates the call p(string) as the code does.  Every  *)
(* call returns its outcome together with the ordered trace of the calls   *)
(* made to the callables it was given (predicates, child parsers, result   *)
(* processors).                                                            *)
(***************************************************************************)
EXTENDS Integers, Sequences, FiniteSets, TLC

VARIABLES op, fn, arg, ret, calls, frame

vars == <<op, fn, arg, ret, calls, frame>>

(***************************************************************************)
(* Bounds of the model.                                                    *)
(***************************************************************************)
MaxLen == 3
MaxChain == 2
MaxTake == 2
MaxRs == 2
MaxIndex == 2
MaxIndexes == 2

(***************************************************************************)
(* Python values.  A str is a sequence of one-character strings.           *)
(***************************************************************************)
Str(s) == <<"str", s>>
Tup(xs) == <<"tuple", xs>>
PyInt(n) == <<"int", n>>
PyNone == <<"None">>
EmptyStr == Str(<<>>)

Digits == {"0", "1", "2", "3", "4", "5", "6", "7", "8", "9"}
Letters == {"a", "b"}
Spaces == {" "}

\* string[:n] and string[n:] with Python's clamping of out-of-range and
\* negative bounds.
Clamp(n, len) ==
    IF n < 0 THEN (IF len + n < 0 THEN 0 ELSE len + n)
    ELSE (IF n > len THEN len ELSE n)
SliceTo(string, n) == SubSeq(string, 1, Clamp(n, Len(string)))
SliceFrom(string, n) == SubSeq(string, Clamp(n, Len(string)) + 1, Len(string))

RECURSIVE Flatten(_)
Flatten(ss) == IF ss = <<>> THEN <<>> ELSE Head(ss) \o Flatten(Tail(ss))

RECURSIVE Join(_, _)
Join(ss, sep) ==
    IF ss = <<>> THEN <<>>
    ELSE IF Len(ss) = 1 THEN ss[1]
    ELSE ss[1] \o sep \o Join(Tail(ss), sep)

(***************************************************************************)
(* str() and repr() of a value.                                            *)
(***************************************************************************)
DigitChar(d) ==
    CASE d = 0 -> "0" [] d = 1 -> "1" [] d = 2 -> "2" [] d = 3 -> "3"
      [] d = 4 -> "4" [] d = 5 -> "5" [] d = 6 -> "6" [] d = 7 -> "7"
      [] d = 8 -> "8" [] d = 9 -> "9"

RECURSIVE NatStr(_)
NatStr(n) == IF n < 10 THEN <<DigitChar(n)>> ELSE NatStr(n \div 10) \o <<DigitChar(n % 10)>>
IntStr(n) == IF n < 0 THEN <<"-">> \o NatStr(0 - n) ELSE NatStr(n)

Has(s, ch) == \E i \in 1..Len(s) : s[i] = ch

RECURSIVE Escape(_, _)
Escape(s, q) ==
    IF s = <<>> THEN <<>>
    ELSE (IF Head(s) = "\\" THEN <<"\\", "\\">>
          ELSE IF Head(s) = q THEN <<"\\", q>>
          ELSE <<Head(s)>>) \o Escape(Tail(s), q)

StrRepr(s) ==
    LET q == IF Has(s, "'") /\ ~Has(s, "\"") THEN "\"" ELSE "'"
    IN  <<q>> \o Escape(s, q) \o <<q>>

RECURSIVE PyRepr(_)
PyRepr(v) ==
    CASE v[1] = "str" -> StrRepr(v[2])
      [] v[1] = "int" -> IntStr(v[2])
      [] v[1] = "None" -> <<"N", "o", "n", "e">>
      [] v[1] = "tuple" ->
            <<"(">> \o Join([i \in 1..Len(v[2]) |-> PyRepr(v[2][i])], <<",", " ">>)
                    \o (IF Len(v[2]) = 1 THEN <<",">> ELSE <<>>) \o <<")">>

PyStr(v) == IF v[1] = "str" THEN v[2] ELSE PyRepr(v)

\* len(rs) and rs[i] are defined on str and tuple only.
Sized(rs) == rs[1] \in {"str", "tuple"}
PyLen(rs) == Len(rs[2])
Item(rs, i) == IF rs[1] = "str" THEN Str(<<rs[2][i + 1]>>) ELSE rs[2][i + 1]

(***************************************************************************)
(* Outcomes.  A processor returns a value or raises; a parser returns      *)
(* None or (result, rest), lets an exception escape, or never returns.     *)
(***************************************************************************)
Return(v) == [k |-> "return", v |-> v]
Raised == [k |-> "raise"]
None == [k |-> "None"]
Success(result, rest) == [k |-> "ok", result |-> result, rest |-> rest]
Diverge == [k |-> "diverge"]

Call(by, f, on) == [by |-> by, fn |-> f, on |-> on]

(***************************************************************************)
(* Result processors.                                                      *)
(***************************************************************************)
doNothing(rs) == Return(rs)

concat(rs) ==
    IF Sized(rs)
    THEN Return(Str(Flatten([i \in 1..PyLen(rs) |-> PyStr(Item(rs, i - 1))])))
    ELSE Raised

RECURSIVE Selected(_, _, _)
Selected(indexes, rs, i) ==
    IF i >= PyLen(rs) THEN <<>>
    ELSE (IF \E j \in 1..Len(indexes) : indexes[j] = i THEN <<Item(rs, i)>> ELSE <<>>)
         \o Selected(indexes, rs, i + 1)

\* A bug: unwraps when one index was given rather than when one item is taken.
fromProcTakeByIndexCount(indexes, rs) ==
    IF ~Sized(rs) THEN Raised
    ELSE LET result == Selected(indexes, rs, 0)
         IN  IF Len(indexes) = 1 /\ Len(result) >= 1 THEN Return(result[1]) ELSE Return(Tup(result))

fromProcTake(indexes, rs) ==
    IF ~Sized(rs) THEN Raised
    ELSE LET result == Selected(indexes, rs, 0)
         IN  IF Len(result) = 1 THEN Return(result[1]) ELSE Return(Tup(result))

\* proc(rs), for the processors of the library and the caller's lambdas.
ProcApply(proc, rs) ==
    CASE proc[1] = "doNothing" -> doNothing(rs)
      [] proc[1] = "concat" -> concat(rs)
      [] proc[1] = "take" -> fromProcTake(proc[2], rs)
      [] proc[1] = "lambda" ->
            CASE proc[2] = "raise" -> Raised
              [] proc[2] = "None" -> Return(PyNone)
              [] proc[2] = "0" -> Return(PyInt(0))
              [] proc[2] = "''" -> Return(EmptyStr)

procTake(indexes) == <<"take", indexes>>

(***************************************************************************)
(* Character predicates handed to byFunc; c is string[:1].                 *)
(***************************************************************************)
Holds(f, c) ==
    CASE f[1] = "isdigit" -> c # <<>> /\ c[1] \in Digits
      [] f[1] = "isalpha" -> c # <<>> /\ c[1] \in Letters
      [] f[1] = "isspace" -> c # <<>> /\ c[1] \in Spaces
      [] f[1] = "nonWhitespace" -> ~(c # <<>> /\ c[1] \in Spaces) /\ c # <<>>
      [] f[1] = "char" -> c = f[2]
      [] f[1] = "notChar" -> c # f[2] /\ c # <<>>
      [] f[1] = "true" -> TRUE

(***************************************************************************)
(* Primitive parsers.                                                      *)
(***************************************************************************)
fromByFunc(f, string) ==
    LET c == SliceTo(string, 1)
        rest == SliceFrom(string, 1)
    IN  [out |-> IF Holds(f, c) THEN Success(Str(c), rest) ELSE None,
         log |-> <<Call(<<"fromByFunc", f>>, f, Str(c))>>]

\* A bug: the two slices swapped.
fromTakeSwapped(n, string) ==
    [out |-> IF Len(string) >= n
             THEN Success(Str(SliceFrom(string, n)), SliceTo(string, n))
             ELSE None,
     log |-> <<>>]

fromTake(n, string) ==
    [out |-> IF Len(string) >= n
             THEN Success(Str(SliceTo(string, n)), SliceFrom(string, n))
             ELSE None,
     log |-> <<>>]

\* re.match(pattern, string) for the patterns <<class, quantifier>>: the end
\* of the greedy match anchored at 0, or -1 when there is no match.
RECURSIVE Span(_, _)
Span(cls, string) ==
    IF string # <<>> /\ Holds(cls, <<Head(string)>>) THEN 1 + Span(cls, Tail(string)) ELSE 0

reMatch(pattern, string) ==
    LET n == Span(pattern[1], string)
    IN  CASE pattern[2] = "1" -> IF n >= 1 THEN 1 ELSE -1
          [] pattern[2] = "*" -> n
          [] pattern[2] = "+" -> IF n >= 1 THEN n ELSE -1

fromReg(pattern, string) ==
    LET end == reMatch(pattern, string)
    IN  [out |-> IF end # -1
                 THEN Success(Str(SubSeq(string, 1, end)), SliceFrom(string, end))
                 ELSE None,
         log |-> <<>>]

byFunc(f) == <<"fromByFunc", f>>
digit == byFunc(<<"isdigit">>)
letter == byFunc(<<"isalpha">>)
nonWhitespace == byFunc(<<"nonWhitespace">>)
whitespace == byFunc(<<"isspace">>)
char(c) == byFunc(<<"char", c>>)
notChar(c) == byFunc(<<"notChar", c>>)
take(n) == <<"fromTake", n>>
reg(pattern) == <<"fromReg", pattern>>

(***************************************************************************)
(* Combinators.  An exception or a non-returning call of a child parser    *)
(* escapes through every combinator: only the processor call in fromAfter  *)
(* sits inside a try.                                                      *)
(***************************************************************************)
RECURSIVE Apply(_, _)
RECURSIVE fromChainLoop(_, _, _, _, _)
RECURSIVE fromManyLoop(_, _, _, _, _)
RECURSIVE fromChoiceLoop(_, _, _, _)

\* for p in parsers: pr = p(rest) ...
fromChainLoop(parsers, i, results, rest, log) ==
    IF i > Len(parsers)
    THEN [out |-> IF Len(results) = 0 THEN None ELSE Success(Tup(results), rest),
          log |-> log]
    ELSE LET pr == Apply(parsers[i], rest)
             log2 == log \o <<Call(<<"fromChain", parsers>>, parsers[i], Str(rest))>> \o pr.log
         IN  IF pr.out.k = "ok"
             THEN fromChainLoop(parsers, i + 1, Append(results, pr.out.result), pr.out.rest, log2)
             ELSE [out |-> pr.out, log |-> log2]

\* A bug: the check for an empty result tuple left out.
fromChainAcceptsEmpty(parsers, string) ==
    IF parsers = <<>>
    THEN [out |-> Success(Tup(<<>>), string), log |-> <<>>]
    ELSE fromChainLoop(parsers, 1, <<>>, string, <<>>)

fromChain(parsers, string) == fromChainLoop(parsers, 1, <<>>, string, <<>>)

\* while pr is not None: result, rest = pr; results += (result,);
\* pr = parser(rest).  pr is the outcome of parser(string), string being the
\* input of the first call and afterwards the rest the loop has reached.  A
\* parser that succeeds leaving its whole input is called on the same input
\* again, for ever.
fromManyLoop(parser, string, pr, results, log) ==
    IF pr.out.k = "ok"
    THEN LET rest == pr.out.rest
         IN  IF rest = string
             THEN [out |-> Diverge, log |-> log]
             ELSE LET pr2 == Apply(parser, rest)
                  IN  fromManyLoop(parser, rest, pr2, Append(results, pr.out.result),
                          log \o <<Call(<<"fromMany", parser>>, parser, Str(rest))>> \o pr2.log)
    ELSE IF pr.out.k = "None"
    THEN [out |-> IF Len(results) = 0 THEN None ELSE Success(Tup(results), string),
          log |-> log]
    ELSE [out |-> pr.out, log |-> log]

\* A bug: an if where the while should be.
fromManyOnce(parser, string) ==
    LET pr == Apply(parser, string)
    IN  [out |-> IF pr.out.k = "ok"
                 THEN Success(Tup(<<pr.out.result>>), pr.out.rest)
                 ELSE pr.out,
         log |-> <<Call(<<"fromMany", parser>>, parser, Str(string))>> \o pr.log]

fromMany(parser, string) ==
    LET pr == Apply(parser, string)
    IN  fromManyLoop(parser, string, pr, <<>>,
                     <<Call(<<"fromMany", parser>>, parser, Str(string))>> \o pr.log)

\* A bug: the failure case drops a character of the input.
fromMaybeConsumes(parser, string) ==
    LET pr == Apply(parser, string)
        log == <<Call(<<"fromMaybe", parser>>, parser, Str(string))>> \o pr.log
    IN  IF pr.out.k = "None"
        THEN [out |-> Success(EmptyStr, SliceFrom(string, 1)), log |-> log]
        ELSE [out |-> pr.out, log |-> log]

fromMaybe(parser, string) ==
    LET pr == Apply(parser, string)
        log == <<Call(<<"fromMaybe", parser>>, parser, Str(string))>> \o pr.log
    IN  IF pr.out.k = "None"
        THEN [out |-> Success(EmptyStr, string), log |-> log]
        ELSE [out |-> pr.out, log |-> log]

\* for p in parsers: pr = p(string) ...
fromChoiceLoop(parsers, i, string, log) ==
    IF i > Len(parsers)
    THEN [out |-> None, log |-> log]
    ELSE LET pr == Apply(parsers[i], string)
             log2 == log \o <<Call(<<"fromChoice", parsers>>, parsers[i], Str(string))>> \o pr.log
         IN  IF pr.out.k = "None"
             THEN fromChoiceLoop(parsers, i + 1, string, log2)
             ELSE [out |-> pr.out, log |-> log2]

\* A bug: the return of the loop body taken whatever the first outcome is.
fromChoiceFirstOnly(parsers, string) ==
    IF parsers = <<>>
    THEN [out |-> None, log |-> <<>>]
    ELSE LET pr == Apply(parsers[1], string)
         IN  [out |-> pr.out,
              log |-> <<Call(<<"fromChoice", parsers>>, parsers[1], Str(string))>> \o pr.log]

fromChoice(parsers, string) == fromChoiceLoop(parsers, 1, string, <<>>)

fromIgnore(parser, string) ==
    LET pr == Apply(parser, string)
        log == <<Call(<<"fromIgnore", parser>>, parser, Str(string))>> \o pr.log
    IN  CASE pr.out.k = "None" -> [out |-> Success(EmptyStr, string), log |-> log]
          [] pr.out.k = "ok" -> [out |-> Success(EmptyStr, pr.out.rest), log |-> log]
          [] OTHER -> [out |-> pr.out, log |-> log]

\* A bug: "if not processed" where "if processed is None" should be.
Falsy(v) == v \in {PyNone, PyInt(0), EmptyStr, Tup(<<>>)}

fromAfterFalsy(parser, proc, string) ==
    LET pr == Apply(parser, string)
        log == <<Call(<<"fromAfter", parser, proc>>, parser, Str(string))>> \o pr.log
    IN  IF pr.out.k = "ok"
        THEN LET processed == ProcApply(proc, pr.out.result)
                 log2 == log \o <<Call(<<"fromAfter", parser, proc>>, proc, pr.out.result)>>
             IN  IF processed.k = "return" /\ ~Falsy(processed.v)
                 THEN [out |-> Success(processed.v, pr.out.rest), log |-> log2]
                 ELSE [out |-> None, log |-> log2]
        ELSE [out |-> pr.out, log |-> log]

fromAfter(parser, proc, string) ==
    LET pr == Apply(parser, string)
        log == <<Call(<<"fromAfter", parser, proc>>, parser, Str(string))>> \o pr.log
    IN  IF pr.out.k = "ok"
        THEN LET processed == ProcApply(proc, pr.out.result)
                 log2 == log \o <<Call(<<"fromAfter", parser, proc>>, proc, pr.out.result)>>
             IN  IF processed.k = "return" /\ processed.v # PyNone
                 THEN [out |-> Success(processed.v, pr.out.rest), log |-> log2]
                 ELSE [out |-> None, log |-> log2]
        ELSE [out |-> pr.out, log |-> log]

fromWhole(parser, string) ==
    LET result == Apply(parser, string)
        log == <<Call(<<"fromWhole", parser>>, parser, Str(string))>> \o result.log
    IN  IF result.out.k = "ok" /\ result.out.rest # <<>>
        THEN [out |-> None, log |-> log]
        ELSE [out |-> result.out, log |-> log]

\* A generator expression called as if it were a parser: a generator object
\* is not callable, the call raises TypeError.
calledGenerator(items, string) == [out |-> Raised, log |-> <<>>]

\* p(string) for a closure p.
Apply(p, string) ==
    CASE p[1] = "fromByFunc" -> fromByFunc(p[2], string)
      [] p[1] = "fromTake" -> fromTake(p[2], string)
      [] p[1] = "fromReg" -> fromReg(p[2], string)
      [] p[1] = "fromChain" -> fromChain(p[2], string)
      [] p[1] = "fromMany" -> fromMany(p[2], string)
      [] p[1] = "fromMaybe" -> fromMaybe(p[2], string)
      [] p[1] = "fromChoice" -> fromChoice(p[2], string)
      [] p[1] = "fromIgnore" -> fromIgnore(p[2], string)
      [] p[1] = "fromAfter" -> fromAfter(p[2], p[3], string)
      [] p[1] = "fromWhole" -> fromWhole(p[2], string)
      [] p[1] = "generator" -> calledGenerator(p[2], string)

after(parser, proc) == <<"fromAfter", parser, proc>>
chain(parsers, proc) == after(<<"fromChain", parsers>>, proc)
many(parser, proc) == after(<<"fromMany", parser>>, proc)
maybe(parser) == <<"fromMaybe", parser>>
manyOrNone(parser, proc) == maybe(many(parser, proc))
choice(parsers) == <<"fromChoice", parsers>>
ignore(parser) == <<"fromIgnore", parser>>
whole(parser) == <<"fromWhole", parser>>

restOfLine ==
    chain(<<manyOrNone(notChar(<<"\n">>), <<"concat">>), maybe(char(<<"\n">>))>>, <<"concat">>)

(***************************************************************************)
(* Prebuilt parsers, and chainIsw, which is written with them.             *)
(***************************************************************************)
allWhitespace == manyOrNone(whitespace, <<"concat">>)
isw(parser) == chain(<<allWhitespace, parser, allWhitespace>>, procTake(<<1>>))

\* chain((isw(p) for p in parsers), proc): the generator expression is the
\* first positional argument and proc the second, so chain's parsers are
\* these two objects and its processor is the default one.  Calling the
\* first raises, so the second is never called.
chainIsw(parsers, proc) ==
    chain(<<<<"generator", [i \in 1..Len(parsers) |-> isw(parsers[i])]>>, proc>>, <<"concat">>)


(***************************************************************************)
(* The arguments the calls are drawn from.                                 *)
(***************************************************************************)
Chars == {"a", "1", " "}
SeqsUpTo(S, n) == UNION {[1..k -> S] : k \in 0..n}
Inputs == SeqsUpTo(Chars, MaxLen)

Preds ==
    {<<"isdigit">>, <<"isalpha">>, <<"isspace">>, <<"nonWhitespace">>, <<"true">>}
        \cup {<<"char", <<ch>>>> : ch \in Chars} \cup {<<"notChar", <<ch>>>> : ch \in Chars}
Patterns == {<<<<"isdigit">>, "*">>, <<<<"isdigit">>, "+">>, <<<<"isalpha">>, "1">>}
Lambdas == {<<"lambda", "raise">>, <<"lambda", "None">>, <<"lambda", "0">>, <<"lambda", "''">>}
Procs == {<<"concat">>, <<"doNothing">>, procTake(<<0>>)} \cup Lambdas

\* Child parsers: failing, consuming, succeeding without consuming,
\* producing tuples, and one that never returns.
Stuck == many(maybe(char(<<"a">>)), <<"concat">>)
Kids ==
    {digit, letter, take(1), maybe(char(<<"a">>)), reg(<<<<"isdigit">>, "*">>),
     many(digit, <<"doNothing">>), Stuck}
ListKids == Kids \ {reg(<<<<"isdigit">>, "*">>), Stuck}
ParserLists == SeqsUpTo(ListKids, MaxChain)

IswProcs == {<<"concat">>, <<"doNothing">>}

IndexLists == SeqsUpTo(0..MaxIndex, MaxIndexes)
Elements == {Str(<<"a">>), Str(<<"1">>), Tup(<<>>)}
ResultLists == {Tup(xs) : xs \in SeqsUpTo(Elements, MaxRs)} \cup {Str(s) : s \in Inputs}

(***************************************************************************)
(* One action per function of the library: build the parser (or the        *)
(* processor) and call it.  The library keeps no state between calls, so a *)
(* behaviour is one call made from the initial state.                      *)
(***************************************************************************)
\* The locals of fromMany while its loop is followed step by step (LoopSpec).
NoFrame == [pc |-> "idle", pr |-> None, results |-> <<>>, rest |-> <<>>]

Init ==
    /\ op = "init"
    /\ fn = <<"none">>
    /\ arg = EmptyStr
    /\ ret = [k |-> "idle"]
    /\ calls = <<>>
    /\ frame = NoFrame

Idle == op = "init"

Invoke(name, p, string) ==
    LET r == Apply(p, string)
    IN  /\ op' = name
        /\ fn' = p
        /\ arg' = Str(string)
        /\ ret' = r.out
        /\ calls' = r.log
        /\ frame' = frame

InvokeProc(name, proc, rs) ==
    /\ op' = name
    /\ fn' = proc
    /\ arg' = rs
    /\ ret' = ProcApply(proc, rs)
    /\ calls' = <<>>
    /\ frame' = frame

ByFunc == Idle /\ \E f \in Preds, s \in Inputs : Invoke("byFunc", byFunc(f), s)
Digit == Idle /\ \E s \in Inputs : Invoke("digit", digit, s)
Letter == Idle /\ \E s \in Inputs : Invoke("letter", letter, s)
NonWhitespace == Idle /\ \E s \in Inputs : Invoke("nonWhitespace", nonWhitespace, s)
Whitespace == Idle /\ \E s \in Inputs : Invoke("whitespace", whitespace, s)
Char == Idle /\ \E ch \in Chars, s \in Inputs : Invoke("char", char(<<ch>>), s)
NotChar == Idle /\ \E ch \in Chars, s \in Inputs : Invoke("notChar", notChar(<<ch>>), s)
Take == Idle /\ \E n \in (0 - MaxTake)..MaxTake, s \in Inputs : Invoke("take", take(n), s)
Reg == Idle /\ \E pattern \in Patterns, s \in Inputs : Invoke("reg", reg(pattern), s)
Chain == Idle /\ \E parsers \in ParserLists, proc \in Procs, s \in Inputs : Invoke("chain", chain(parsers, proc), s)
Many == Idle /\ \E parser \in Kids, proc \in Procs, s \in Inputs : Invoke("many", many(parser, proc), s)
ManyOrNone == Idle /\ \E parser \in Kids, proc \in Procs, s \in Inputs : Invoke("manyOrNone", manyOrNone(parser, proc), s)
Maybe == Idle /\ \E parser \in Kids, s \in Inputs : Invoke("maybe", maybe(parser), s)
Choice == Idle /\ \E parsers \in ParserLists, s \in Inputs : Invoke("choice", choice(parsers), s)
Ignore == Idle /\ \E parser \in Kids, s \in Inputs : Invoke("ignore", ignore(parser), s)
After == Idle /\ \E parser \in Kids, proc \in Procs, s \in Inputs : Invoke("after", after(parser, proc), s)
Whole == Idle /\ \E parser \in Kids, s \in Inputs : Invoke("whole", whole(parser), s)
Isw == Idle /\ \E parser \in Kids, s \in Inputs : Invoke("isw", isw(parser), s)
ChainIsw == Idle /\ \E parsers \in ParserLists, proc \in IswProcs, s \in Inputs : Invoke("chainIsw", chainIsw(parsers, proc), s)
ProcTake == Idle /\ \E indexes \in IndexLists, rs \in ResultLists : InvokeProc("ResultProcessors.take", procTake(indexes), rs)
ProcConcat == Idle /\ \E rs \in ResultLists : InvokeProc("concat", <<"concat">>, rs)
ProcDoNothing == Idle /\ \E rs \in ResultLists : InvokeProc("doNothing", <<"doNothing">>, rs)

Next ==
    \/ ByFunc \/ Digit \/ Letter \/ NonWhitespace \/ Whitespace \/ Char \/ NotChar
    \/ Take \/ Reg
    \/ Chain \/ Many \/ ManyOrNone \/ Maybe \/ Choice \/ Ignore \/ After \/ Whole
    \/ Isw \/ ChainIsw
    \/ ProcTake \/ ProcConcat \/ ProcDoNothing

Spec == Init /\ [][Next]_vars


(***************************************************************************)
(* Properties.                                                             *)
(***************************************************************************)
ParserOps ==
    {"byFunc", "digit", "letter", "nonWhitespace", "whitespace", "char", "notChar",
     "take", "reg", "chain", "many", "manyOrNone", "maybe", "choice", "ignore",
     "after", "whole"}

\* The input string of a parser call.
Input == arg[2]

IsSuffix(r, s) == Len(r) <= Len(s) /\ r = SubSeq(s, Len(s) - Len(r) + 1, Len(s))

\* C1: whenever a parser built from the primitives and the combinators
\* succeeds with (value, rest) on s, rest is a suffix of s, no longer than s.
C1_RemainderIsSuffix ==
    (op \in ParserOps /\ ret.k = "ok") =>
        IsSuffix(ret.rest, Input) /\ Len(ret.rest) <= Len(Input)

\* A combinator succeeded having consumed part of its input, not all of it.
C1_Witness ==
    /\ op \in {"chain", "many", "choice", "after", "whole", "take", "reg"}
    /\ ret.k = "ok"
    /\ ret.rest # <<>>
    /\ Len(ret.rest) < Len(Input)

\* C2 as stated: byFunc(pred) on the empty string fails, whatever pred is, and
\* pred is never applied to the empty character.
C2_EmptyInputFails ==
    (op = "byFunc" /\ Input = <<>>) =>
        /\ ret = None
        /\ \A i \in 1..Len(calls) : calls[i].on # EmptyStr

\* The values the child parser p yields when applied greedily from s on, and
\* the input left where it first fails; def is FALSE when p raises, or succeeds
\* without consuming (there is then no first failure).
RECURSIVE Greedy(_, _)
Greedy(p, s) ==
    LET r == Apply(p, s).out
    IN  IF r.k = "ok" /\ r.rest # s
        THEN LET g == Greedy(p, r.rest)
             IN  [def |-> g.def, vals |-> <<r.result>> \o g.vals, rest |-> g.rest]
        ELSE [def |-> r.k = "None", vals |-> <<>>, rest |-> s]

\* C3 as stated: manyOrNone(p, proc)(s) is proc applied to the tuple of the
\* values p yields before its first failure (the empty tuple when there are
\* none), with the input left after the last success.
C3_ManyOrNoneIsGreedy ==
    op = "manyOrNone" =>
        LET p == fn[2][2][2]
            proc == fn[2][3]
            g == Greedy(p, Input)
            processed == ProcApply(proc, Tup(g.vals))
        IN  (g.def /\ processed.k = "return" /\ processed.v # PyNone) =>
                ret = Success(processed.v, g.rest)

\* C4 as stated: an index outside the result sequence makes
\* ResultProcessors.take raise, and a negative count makes
\* PrimitiveParsers.take raise.
C4_MalformedArgumentsRaise ==
    /\ (op = "ResultProcessors.take" /\ Sized(arg)
            /\ \E j \in 1..Len(fn[2]) : fn[2][j] >= PyLen(arg)) => ret.k = "raise"
    /\ (op = "take" /\ fn[2] < 0) => ret.k = "raise"

\* The positions of rs that ResultProcessors.take(indexes) selects, and the
\* elements at them in ascending order of position.
Positions(indexes, rs) == {i \in 0..(PyLen(rs) - 1) : \E j \in 1..Len(indexes) : indexes[j] = i}

RECURSIVE Ascending(_, _)
Ascending(P, rs) ==
    IF P = {} THEN <<>>
    ELSE LET i == CHOOSE x \in P : \A y \in P : x <= y
         IN  <<Item(rs, i)>> \o Ascending(P \ {i}, rs)

\* C5 as stated: the result is the bare element exactly when one index was
\* given, and a tuple of the selected elements otherwise.
C5_BareIffOneIndex ==
    (op = "ResultProcessors.take" /\ Sized(arg)
        /\ \A j \in 1..Len(fn[2]) : fn[2][j] < PyLen(arg)) =>
        LET sel == Ascending(Positions(fn[2], arg), arg)
        IN  ret = IF Len(fn[2]) = 1 THEN Return(sel[1]) ELSE Return(Tup(sel))

\* C5, amended: ResultProcessors.take(indexes...) keeps the elements of rs
\* whose position is among the indexes, in their order in rs; the result is
\* the bare element exactly when one element is kept, and a tuple otherwise.
C5_BareIffOneSelected ==
    (op = "ResultProcessors.take" /\ Sized(arg)) =>
        LET P == Positions(fn[2], arg)
            sel == Ascending(P, arg)
        IN  /\ ret.k = "return"
            /\ Cardinality(P) = 1 => ret.v = sel[1]
            /\ Cardinality(P) # 1 => ret.v = Tup(sel)

\* Two indexes were given and one element was kept.
C5_Witness ==
    /\ op = "ResultProcessors.take"
    /\ Sized(arg)
    /\ Len(fn[2]) = 2
    /\ Cardinality(Positions(fn[2], arg)) = 1
    /\ ret.k = "return"
    /\ PyLen(arg) >= 2


\* The calls a closure made, in order, to the callables it was given.
DirectCalls(by) == SelectSeq(calls, LAMBDA e : e.by = by)
Ran(by) == LET D == DirectCalls(by) IN [i \in 1..Len(D) |-> <<D[i].fn, D[i].on>>]

\* The parsers of a list run one after the other from s, each on what its
\* predecessor left, up to the first that does not succeed.
RECURSIVE Sequenced(_, _)
Sequenced(parsers, s) ==
    IF parsers = <<>>
    THEN [ok |-> TRUE, results |-> <<>>, rest |-> s, ran |-> <<>>, stop |-> None]
    ELSE LET r == Apply(Head(parsers), s).out
         IN  IF r.k = "ok"
             THEN LET t == Sequenced(Tail(parsers), r.rest)
                  IN  [ok |-> t.ok, results |-> <<r.result>> \o t.results, rest |-> t.rest,
                       ran |-> <<<<Head(parsers), Str(s)>>>> \o t.ran, stop |-> t.stop]
             ELSE [ok |-> FALSE, results |-> <<>>, rest |-> s,
                   ran |-> <<<<Head(parsers), Str(s)>>>>, stop |-> r]

\* What after(p, proc) makes of p's success with (result, rest).
Processed(proc, result, rest) ==
    LET processed == ProcApply(proc, result)
    IN  IF processed.k = "return" /\ processed.v # PyNone
        THEN Success(processed.v, rest)
        ELSE None

\* C6: chain(p1..pn, proc)(s) calls p1..pn left to right, each on the rest
\* its predecessor left, and no parser after the first that fails; it fails
\* when one fails, and when n = 0; when all succeed it is proc applied to the
\* tuple of their results, with the rest pn left.
C6_ChainSequences ==
    op = "chain" =>
        LET parsers == fn[2][2]
            proc == fn[3]
            ref == Sequenced(parsers, Input)
        IN  /\ Ran(fn[2]) = ref.ran
            /\ (~ref.ok /\ ref.stop = None) =>
                    /\ ret = None
                    /\ Len(ref.ran) <= Len(parsers)
                    /\ Ran(fn) = <<<<fn[2], arg>>>>
            /\ parsers = <<>> => ret = None
            /\ (ref.ok /\ parsers # <<>>) =>
                    /\ ret = Processed(proc, Tup(ref.results), ref.rest)
                    /\ Ran(fn) = <<<<fn[2], arg>>, <<proc, Tup(ref.results)>>>>

\* A chain of two parsers stopped at its first parser, which failed.
C6_Witness ==
    /\ op = "chain"
    /\ Len(fn[2][2]) = 2
    /\ Len(DirectCalls(fn[2])) = 1
    /\ ret = None

C8_ChoiceIsLeftBiased ==
    op = "choice" =>
        LET parsers == fn[2]
            n == Len(parsers)
            Wins == {i \in 1..n : Apply(parsers[i], Input).out.k = "ok"}
            first == CHOOSE i \in Wins : \A j \in Wins : i <= j
            tried == IF Wins = {} THEN n ELSE first
        IN  /\ Ran(fn) = [i \in 1..tried |-> <<parsers[i], arg>>]
            /\ Wins # {} => ret = Apply(parsers[first], Input).out
            /\ ret = None <=> Wins = {}

\* Both alternatives succeed on s, with different outcomes.
C8_Witness ==
    /\ op = "choice"
    /\ Len(fn[2]) = 2
    /\ Apply(fn[2][1], Input).out.k = "ok"
    /\ Apply(fn[2][2], Input).out.k = "ok"
    /\ Apply(fn[2][1], Input).out # Apply(fn[2][2], Input).out

\* C9: after(p, proc), and chain and many built on it: when p fails proc is
\* not called and the result is None; when p succeeds proc is called once on
\* p's result, and the result is None if proc raises or returns None, and
\* (v, p's rest) if proc returns any other v; no exception of proc escapes.
C9_AfterContainsProcessor ==
    op \in {"after", "chain", "many"} =>
        LET p == fn[2]
            proc == fn[3]
            pr == Apply(p, Input).out
            processed == ProcApply(proc, pr.result)
        IN  /\ pr = None => (ret = None /\ Ran(fn) = <<<<p, arg>>>>)
            /\ pr.k = "ok" =>
                    /\ Ran(fn) = <<<<p, arg>>, <<proc, pr.result>>>>
                    /\ ret.k # "raise"
                    /\ (processed.k = "raise" \/ processed = Return(PyNone)) => ret = None
                    /\ (processed.k = "return" /\ processed.v # PyNone) =>
                            ret = Success(processed.v, pr.rest)

\* The processor returned the falsy value 0 and the parser succeeded with it.
C9_Witness ==
    /\ op \in {"after", "chain", "many"}
    /\ fn[3] = <<"lambda", "0">>
    /\ ret.k = "ok"
    /\ ret.result = PyInt(0)

\* C10: maybe(p)(s) never fails: it is p's (value, rest) when p succeeds on s
\* and ('', s) when p fails on s.
C10_MaybeNeverFails ==
    op = "maybe" =>
        LET pr == Apply(fn[2], Input).out
        IN  /\ ret # None
            /\ pr.k = "ok" => ret = pr
            /\ pr = None => ret = Success(EmptyStr, Input)

\* p failed on a non-empty input.
C10_Witness ==
    /\ op = "maybe"
    /\ Apply(fn[2], Input).out = None
    /\ Input # <<>>
    /\ ret.k = "ok"


\* C11 as stated: chainIsw(p1..pn, proc=f)(s) is chain(isw(p1), .., isw(pn),
\* proc=f)(s): the same failure, or the same value and the same rest.
C11_ChainIswIsChainOfIsw ==
    op = "chainIsw" =>
        LET wrapped == fn[2][2][1][2]
            proc == fn[2][2][2]
        IN  ret = Apply(chain(wrapped, proc), Input).out


(***************************************************************************)
(* The loop of fromMany, one application of the child parser per step.     *)
(* The child parser is one that returns on every input; its call is one    *)
(* step.  A parser runs on the caller's thread until it returns, so a      *)
(* step that can be taken is taken.                                        *)
(***************************************************************************)
LoopKids == (Kids \ {Stuck}) \cup {ignore(digit), manyOrNone(digit, <<"concat">>), restOfLine}
LoopProcs == {<<"concat">>, <<"doNothing">>}

\* The closure many(parser, proc) of the running call, and its parts.
ManyClosure == IF op = "manyOrNone" THEN fn[2] ELSE fn
LoopParser == ManyClosure[2][2]
LoopProc == ManyClosure[3]

\* The applications of the child parser the loop has made.
Applications == DirectCalls(ManyClosure[2])
Repeated == \E i, j \in 1..Len(Applications) : i < j /\ Applications[i].on = Applications[j].on

\* results = (); pr = parser(string)
LoopEnter(name, p, parser, string, log) ==
    LET pr == Apply(parser, string)
    IN  /\ op' = name
        /\ fn' = p
        /\ arg' = Str(string)
        /\ ret' = [k |-> "running"]
        /\ calls' = log \o <<Call(<<"fromMany", parser>>, parser, Str(string))>> \o pr.log
        /\ frame' = [pc |-> "while", pr |-> pr.out, results |-> <<>>, rest |-> string]

LoopMany ==
    Idle /\ \E parser \in LoopKids, proc \in LoopProcs, s \in Inputs :
        LET p == many(parser, proc)
        IN  LoopEnter("many", p, parser, s, <<Call(p, p[2], Str(s))>>)

LoopManyOrNone ==
    Idle /\ \E parser \in LoopKids, proc \in LoopProcs, s \in Inputs :
        LET p == manyOrNone(parser, proc)
        IN  LoopEnter("manyOrNone", p, parser, s,
                      <<Call(p, p[2], Str(s)), Call(p[2], p[2][2], Str(s))>>)

\* while pr is not None: result, rest = pr; results += (result,);
\* pr = parser(rest).  The run is followed up to the first application of
\* the parser to an input it was applied to before.
LoopWhile ==
    /\ frame.pc = "while"
    /\ frame.pr.k = "ok"
    /\ ~Repeated
    /\ LET rest == frame.pr.rest
           pr == Apply(LoopParser, rest)
       IN  /\ frame' = [pc |-> "while", pr |-> pr.out,
                        results |-> Append(frame.results, frame.pr.result), rest |-> rest]
           /\ calls' = calls \o <<Call(ManyClosure[2], LoopParser, Str(rest))>> \o pr.log
    /\ UNCHANGED <<op, fn, arg, ret>>

\* The loop is left: fromMany returns, fromAfter applies the processor, and
\* under manyOrNone fromMaybe turns None into ('', string).
LoopReturn ==
    /\ frame.pc = "while"
    /\ frame.pr.k # "ok"
    /\ LET inner == IF frame.pr.k = "None"
                    THEN (IF Len(frame.results) = 0 THEN None
                          ELSE Success(Tup(frame.results), frame.rest))
                    ELSE frame.pr
           processed == ProcApply(LoopProc, inner.result)
           made == IF inner.k # "ok" THEN inner
                   ELSE IF processed.k = "return" /\ processed.v # PyNone
                   THEN Success(processed.v, inner.rest)
                   ELSE None
       IN  /\ ret' = IF op = "manyOrNone" /\ made = None
                     THEN Success(EmptyStr, Input)
                     ELSE made
           /\ calls' = IF inner.k = "ok"
                       THEN calls \o <<Call(ManyClosure, LoopProc, inner.result)>>
                       ELSE calls
    /\ frame' = [frame EXCEPT !.pc = "returned"]
    /\ UNCHANGED <<op, fn, arg>>

LoopNext == LoopMany \/ LoopManyOrNone \/ LoopWhile \/ LoopReturn

LoopSpec == Init /\ [][LoopNext]_vars /\ WF_vars(LoopNext)

\* A call followed step by step returns what Apply gives for it, with the
\* same trace of calls.
LoopAgreesWithApply ==
    frame.pc = "returned" =>
        LET r == Apply(fn, Input)
        IN  ret = r.out /\ calls = r.log

\* C12 as stated: many(p)(s) and manyOrNone(p)(s) return after finitely many
\* applications of p, for every p that returns, one that can succeed without
\* consuming included.  p's outcome is a function of its input, so a call
\* that returns has applied p to no input twice: from the second application
\* on, the loop is where it was and repeats it for ever.
C12_ManyAppliesFinitely ==
    op \in {"many", "manyOrNone"} => ~Repeated

====
